---------------------------- MODULE Spec2Model ----------------------------
(***************************************************************************)
(* A model of the spanish-tutor repository: the two completion engines     *)
(* (OllamaChatCompletionsCore, which replays its message history, and      *)
(* OpenAICore, which threads a previous_response_id), the SpanishAITutor   *)
(* personas, and the Streamlit front end with its lock-guarded transcript  *)
(* file (SpanishTutorUI).                                                  *)
(*                                                                         *)
(* Python values are tagged records [t, v]: t names the Python type and v  *)
(* holds the payload.  A str is a sequence of characters, each character a *)
(* one-element TLA+ string; an identifier-like word ("role", "user", a     *)
(* model name) is kept as a single atom of that sequence.  A dict and an   *)
(* object are insertion-ordered sequences of <<key, value>> pairs.         *)
(***************************************************************************)
EXTENDS Naturals, Sequences, FiniteSets, TLC

VARIABLES
    \* Variant A, one OllamaChatCompletionsCore instance
    system_prompt,      \* OllamaChatCompletionsCore.__system_prompt
    messages,           \* OllamaChatCompletionsCore.__messages
    last_call,          \* what the last create_completion call was given and did
    calls,              \* number of create_completion calls made so far
    frame,              \* a create_completion call in progress, line by line
    \* Variant B, one OpenAICore instance
    previous_response_id,   \* OpenAICore.__previous_response_id
    exchanges,              \* per create_response call: request sent, response received
    \* Transcript store on its own
    file,               \* chat_history.json: absent, unreadable, or a byte sequence
    saved,              \* the list last handed to _save_history
    loaded,             \* the outcome of the last _load_history
    store_pc,           \* which operation the store performed last
    \* Front end: several sessions sharing the transcript file
    history_file,       \* chat_history.json as the sessions see it
    lock_holder,        \* who holds chat_history.lock
    session,            \* per session: st.session_state and the position in run()
    turns,              \* interactions (send message, reset) started so far
    \* Configuration objects
    environ,            \* os.environ as os.getenv sees it after load_dotenv()
    ollama_config,      \* the outcome of the last OllamaConfig()
    openai_config       \* the outcome of the last OpenAIConfig()

varsA     == <<system_prompt, messages, last_call, calls, frame>>
varsB     == <<previous_response_id, exchanges>>
varsStore == <<file, saved, loaded, store_pc>>
varsUI    == <<history_file, lock_holder, session, turns>>
varsConfig == <<environ, ollama_config, openai_config>>
vars      == <<varsA, varsB, varsStore, varsUI, varsConfig>>

-----------------------------------------------------------------------------
(* Bounds of the model *)

MaxCalls == 2       \* create_completion / create_response calls per engine
MaxMessages == 2    \* length of a message list handed to the transcript store
MaxTurns == 2       \* interactions (send message, reset) of the front-end sessions together

-----------------------------------------------------------------------------
(* Python values *)

Str(s)  == [t |-> "str",  v |-> s]
PyNone  == [t |-> "None", v |-> <<>>]
Int(n)  == [t |-> "int",  v |-> n]
List(s) == [t |-> "list", v |-> s]
Dict(p) == [t |-> "dict", v |-> p]
Obj(p)  == [t |-> "obj",  v |-> p]

Word(w) == <<w>>

\* The outcome of evaluating an expression: a value, or an exception raised.
Ok(x)    == [exc |-> "", val |-> x]
Raise(e) == [exc |-> e,  val |-> PyNone]

\* bool(x)
Truthy(x) ==
    CASE x.t = "None" -> FALSE
      [] x.t = "int"  -> x.v # 0
      [] x.t = "obj"  -> TRUE
      [] OTHER        -> x.v # <<>>

Whitespace == {" ", "\n"}

RECURSIVE LStrip(_)
LStrip(s) ==
    IF s # <<>> /\ Head(s) \in Whitespace THEN LStrip(Tail(s)) ELSE s

RECURSIVE RStrip(_)
RStrip(s) ==
    IF s # <<>> /\ s[Len(s)] \in Whitespace
    THEN RStrip(SubSeq(s, 1, Len(s) - 1))
    ELSE s

\* str.strip()
Strip(s) == RStrip(LStrip(s))

HasKey(pairs, k) == \E i \in 1..Len(pairs) : pairs[i][1] = k

\* The value stored under k (the caller checks HasKey).
Lookup(pairs, k) ==
    pairs[CHOOSE i \in 1..Len(pairs) : pairs[i][1] = k][2]

\* r.name
GetAttr(r, name) ==
    IF r.exc # "" THEN r
    ELSE IF r.val.t = "obj" /\ HasKey(r.val.v, name) THEN Ok(Lookup(r.val.v, name))
    ELSE Raise("AttributeError")

\* r[0]
GetItem0(r) ==
    IF r.exc # "" THEN r
    ELSE CASE r.val.t = "list" ->
                  IF r.val.v = <<>> THEN Raise("IndexError") ELSE Ok(r.val.v[1])
           [] r.val.t = "str" ->
                  IF r.val.v = <<>> THEN Raise("IndexError")
                  ELSE Ok(Str(<<r.val.v[1]>>))
           [] r.val.t = "dict" ->
                  Raise("KeyError")
           [] OTHER -> Raise("TypeError")

\* {"role": role, "content": content}
Msg(role, content) ==
    Dict(<< <<Word("role"), Str(Word(role))>>, <<Word("content"), content>> >>)

\* dict.update: base with every key of extra added or overwritten.
Update(base, extra) ==
    [k \in DOMAIN base \cup DOMAIN extra |->
        IF k \in DOMAIN extra THEN extra[k] ELSE base[k]]

NoKwargs == [k \in {} |-> PyNone]

-----------------------------------------------------------------------------
(* Variant A: ollama_core.py, spanish_ai_tutor.py *)

\* OllamaConfig.model_name of the configuration the engines are built with
model_name == Str(Word("demo-model"))

\* The persona prompt SpanishAITutor passes to the core.
TutorPrompt ==
    Str(Word("You are a patient, encouraging Spanish tutor. Respond in Spanish, explain mistakes clearly, and provide brief examples."))

\* OllamaChatCompletionsCore.__init__: the initial message list
NewMessages(prompt) == << Msg("system", prompt) >>

\* (mutant) the extraction no longer swallows an empty choices list
ExtractCaught_NoIndexError == {"AttributeError", "KeyError", "TypeError"}

\* The exceptions the extraction swallows.
ExtractCaught == {"AttributeError", "IndexError", "KeyError", "TypeError"}

\* response.choices[0].message.content
ContentPath(response) ==
    GetAttr(GetAttr(GetItem0(GetAttr(Ok(response), Word("choices"))),
                    Word("message")),
            Word("content"))

\* OllamaChatCompletionsCore._extract_assistant_content
extract_assistant_content(response) ==
    LET r == ContentPath(response)
        content == IF r.exc \in ExtractCaught THEN Ok(PyNone) ELSE r
    IN  IF content.exc # "" THEN content
        ELSE IF Truthy(content.val) THEN content ELSE Ok(Str(<<>>))

\* SpanishAITutor.handle_response (Variant A)
HandleCaught == {"AttributeError", "IndexError", "KeyError", "TypeError"}

handle_response(response) ==
    LET r == ContentPath(response)
    IN  IF r.exc = "" THEN (IF Truthy(r.val) THEN r ELSE Ok(Str(<<>>)))
        ELSE IF r.exc \in HandleCaught THEN Ok(Str(<<>>))
        ELSE r

\* The guard of create_completion: the call is rejected.
InputRejected(input_text) == input_text.t = "None"

\* (mutant) the extra options are merged first, so the engine's own fields win
Payload_EngineWins(msgs, kwargs) ==
    Update(kwargs, [model |-> model_name, messages |-> List(msgs)])

\* The request built by create_completion from the list with the user turn.
Payload(msgs, kwargs) ==
    Update([model |-> model_name, messages |-> List(msgs)], kwargs)

\* The assistant turn is appended when the extracted text survives strip().
AppendsAssistant(assistant_message) == Strip(assistant_message.v) # <<>>

\* (mutant) the assistant turn stores the stripped text
AfterResponse_Stripped(msgs, response) ==
    LET assistant_message == extract_assistant_content(response)
    IN  IF assistant_message.exc # "" THEN msgs
        ELSE IF AppendsAssistant(assistant_message.val)
             THEN Append(msgs, Msg("assistant", Str(Strip(assistant_message.val.v))))
             ELSE msgs

\* The message list once the backend has answered.
AfterResponse(msgs, response) ==
    LET assistant_message == extract_assistant_content(response)
    IN  IF assistant_message.exc # "" THEN msgs
        ELSE IF AppendsAssistant(assistant_message.val)
             THEN Append(msgs, Msg("assistant", assistant_message.val))
             ELSE msgs

\* (mutant) the user turn is recorded only for a non-empty text
WithUserTurn_SkipsEmpty(msgs, input_text) ==
    IF Truthy(input_text) THEN Append(msgs, Msg("user", input_text)) ELSE msgs

\* (mutant) the user turn is inserted at the front of the list
WithUserTurn_Front(msgs, input_text) == <<Msg("user", input_text)>> \o msgs

\* The message list once the user turn is recorded.
WithUserTurn(msgs, input_text) == Append(msgs, Msg("user", input_text))

\* (mutant) the None check comes after the append and the backend call
create_completion_LateCheck(msgs, input_text, kwargs, backend) ==
    LET m1 == WithUserTurn(msgs, input_text)
        payload == Payload(m1, kwargs)
    IN  IF InputRejected(input_text)
        THEN [messages |-> m1, exc |-> "ValueError", ret |-> PyNone,
              sent |-> <<payload>>]
        ELSE IF backend.exc # ""
        THEN [messages |-> m1, exc |-> backend.exc, ret |-> PyNone,
              sent |-> <<payload>>]
        ELSE [messages |-> AfterResponse(m1, backend.val),
              exc |-> handle_response(backend.val).exc,
              ret |-> handle_response(backend.val).val, sent |-> <<payload>>]

\* (mutant) a failed backend call takes the user turn back
create_completion_RollsBack(msgs, input_text, kwargs, backend) ==
    IF InputRejected(input_text)
    THEN [messages |-> msgs, exc |-> "ValueError", ret |-> PyNone, sent |-> <<>>]
    ELSE LET m1 == WithUserTurn(msgs, input_text)
             payload == Payload(m1, kwargs)
         IN  IF backend.exc # ""
             THEN [messages |-> msgs, exc |-> backend.exc, ret |-> PyNone,
                   sent |-> <<payload>>]
             ELSE LET extracted == extract_assistant_content(backend.val)
                      m2 == AfterResponse(m1, backend.val)
                      out == handle_response(backend.val)
                  IN  IF extracted.exc # ""
                      THEN [messages |-> m2, exc |-> extracted.exc,
                            ret |-> PyNone, sent |-> <<payload>>]
                      ELSE [messages |-> m2, exc |-> out.exc, ret |-> out.val,
                            sent |-> <<payload>>]

\* OllamaChatCompletionsCore.create_completion on the message list msgs.
\* backend is what chat.completions.create does with the request: it raises
\* ([exc |-> "APIError"]) or returns a response ([exc |-> "", val |-> r]).
\* The result: the message list afterwards, the exception raised (if any),
\* the value returned and the requests sent to the backend.
create_completion(msgs, input_text, kwargs, backend) ==
    IF InputRejected(input_text)
    THEN [messages |-> msgs, exc |-> "ValueError", ret |-> PyNone, sent |-> <<>>]
    ELSE LET m1 == WithUserTurn(msgs, input_text)
             payload == Payload(m1, kwargs)
         IN  IF backend.exc # ""
             THEN [messages |-> m1, exc |-> backend.exc, ret |-> PyNone,
                   sent |-> <<payload>>]
             ELSE LET extracted == extract_assistant_content(backend.val)
                      m2 == AfterResponse(m1, backend.val)
                      out == handle_response(backend.val)
                  IN  IF extracted.exc # ""
                      THEN [messages |-> m2, exc |-> extracted.exc,
                            ret |-> PyNone, sent |-> <<payload>>]
                      ELSE [messages |-> m2, exc |-> out.exc, ret |-> out.val,
                            sent |-> <<payload>>]

(* Inputs of the Variant A engine *)

SystemPrompts == {TutorPrompt, Str(<<>>)}

InputTexts == {PyNone, Str(<<>>), Str(<<"n">>)}

KwargsChoices ==
    { NoKwargs,
      [model |-> Str(Word("other-model"))],
      [messages |-> List(<<>>)],
      [temperature |-> Int(0)] }

\* A well-formed chat completion whose first choice carries content.
Completion(content) ==
    Obj(<< <<Word("choices"),
             List(<< Obj(<< <<Word("message"),
                              Obj(<< <<Word("content"), content>> >>)>> >>) >>)>> >>)

Responses ==
    { PyNone,                                               \* no response object
      Obj(<<>>),                                            \* no choices field
      Obj(<< <<Word("choices"), PyNone>> >>),               \* choices is null
      Obj(<< <<Word("choices"), List(<<>>)>> >>),           \* no choice
      Obj(<< <<Word("choices"), Dict(<<>>)>> >>),           \* choices is a mapping
      Obj(<< <<Word("choices"), Str(<<"n">>)>> >>),         \* choices is a string
      Obj(<< <<Word("choices"), Str(<<>>)>> >>),            \* choices is ""
      Obj(<< <<Word("choices"), List(<<Obj(<<>>)>>)>> >>),  \* choice without message
      Obj(<< <<Word("choices"),
               List(<<Obj(<< <<Word("message"), PyNone>> >>)>>)>> >>),
      Obj(<< <<Word("choices"),
               List(<<Obj(<< <<Word("message"), Obj(<<>>)>> >>)>>)>> >>),
      Completion(PyNone),
      Completion(Str(<<>>)),
      Completion(Str(<<" ", "\n">>)),
      Completion(Str(<<"n">>)),
      Completion(Str(<<" ", "n", "\n">>)) }

BackendOutcomes == {Raise("APIError")} \cup {Ok(r) : r \in Responses}

NoCall ==
    [input_text |-> PyNone, kwargs |-> NoKwargs, backend |-> Raise("none"),
     before |-> <<>>, exc |-> "none", ret |-> PyNone, sent |-> <<>>]

\* No create_completion call is in progress.
NoFrame ==
    [pc |-> "idle", input_text |-> PyNone, kwargs |-> NoKwargs, before |-> <<>>,
     request |-> <<>>, response |-> Raise("none"), exc |-> "",
     raised_in |-> "", ret |-> PyNone]

IdleA ==
    /\ system_prompt = Str(<<>>)
    /\ messages = <<>>
    /\ last_call = NoCall
    /\ calls = 0
    /\ frame = NoFrame

IdleB ==
    /\ previous_response_id = PyNone
    /\ exchanges = <<>>

IdleStore ==
    /\ file = [kind |-> "absent", bytes |-> <<>>]
    /\ saved = <<>>
    /\ loaded = Raise("none")
    /\ store_pc = "idle"

IdleUI ==
    /\ history_file = [kind |-> "absent", bytes |-> <<>>]
    /\ lock_holder = 0
    /\ session = <<>>
    /\ turns = 0

\* No configuration object has been constructed.
NotConstructed == [exc |-> "none", msg |-> "", val |-> PyNone]

IdleConfig ==
    /\ environ = <<>>
    /\ ollama_config = NotConstructed
    /\ openai_config = NotConstructed

\* OllamaChatCompletionsCore.__init__
InitA ==
    /\ system_prompt \in SystemPrompts
    /\ messages = NewMessages(system_prompt)
    /\ last_call = NoCall
    /\ calls = 0
    /\ frame = NoFrame
    /\ IdleB /\ IdleStore /\ IdleUI /\ IdleConfig

\* One call of create_completion(input_text, **kwargs), with the backend's answer.
CreateCompletion ==
    /\ calls < MaxCalls
    /\ \E input_text \in InputTexts, kwargs \in KwargsChoices,
          backend \in BackendOutcomes :
          LET r == create_completion(messages, input_text, kwargs, backend)
          IN  /\ messages' = r.messages
              /\ last_call' = [input_text |-> input_text, kwargs |-> kwargs,
                               backend |-> IF InputRejected(input_text)
                                           THEN Raise("none") ELSE backend,
                               before |-> messages, exc |-> r.exc,
                               ret |-> r.ret, sent |-> r.sent]
    /\ calls' = calls + 1
    /\ UNCHANGED <<system_prompt, frame, varsB, varsStore, varsUI, varsConfig>>

NextA == CreateCompletion

SpecA == InitA /\ [][NextA]_vars

-----------------------------------------------------------------------------
(* Variant A: properties *)

\* What the claims call the extractable text of a response: the content of
\* the first choice's message when every level is present and the content is
\* a string; no text otherwise.  Stated on the shape of the response alone.
HasContentString(response) ==
    /\ response.t = "obj"
    /\ \E i \in 1..Len(response.v) :
          /\ response.v[i][1] = Word("choices")
          /\ response.v[i][2].t = "list"
          /\ response.v[i][2].v # <<>>
          /\ LET choice == response.v[i][2].v[1]
             IN  /\ choice.t = "obj"
                 /\ \E j \in 1..Len(choice.v) :
                       /\ choice.v[j][1] = Word("message")
                       /\ choice.v[j][2].t = "obj"
                       /\ \E k \in 1..Len(choice.v[j][2].v) :
                             /\ choice.v[j][2].v[k][1] = Word("content")
                             /\ choice.v[j][2].v[k][2].t = "str"

ContentString(response) ==
    LET choices == response.v[CHOOSE i \in 1..Len(response.v) :
                                 response.v[i][1] = Word("choices")][2]
        choice  == choices.v[1]
        message == choice.v[CHOOSE j \in 1..Len(choice.v) :
                               choice.v[j][1] = Word("message")][2]
    IN  message.v[CHOOSE k \in 1..Len(message.v) :
                     message.v[k][1] = Word("content")][2]

NonBlank(s) == \E i \in 1..Len(s) : s[i] \notin Whitespace

HasExtractableText(response) ==
    HasContentString(response) /\ NonBlank(ContentString(response).v)

\* The last call got as far as the backend and the backend answered.
Answered == last_call.exc # "none" /\ last_call.backend.exc = ""

\* C1: in every reachable state of a Variant A engine the first element of the
\* message sequence is {role: system, content: the persona prompt given at
\* construction}.
C1_SystemPromptFirst ==
    /\ Len(messages) >= 1
    /\ messages[1] = Msg("system", system_prompt)

\* C1 witness: two calls that both appended a user and an assistant turn.
C1_Witness ==
    /\ calls = 2
    /\ Len(messages) = 5
    /\ last_call.exc = ""

\* C2: a call with a non-None user text whose response has extractable text,
\* non-empty after trimming, appends exactly the user turn and then the
\* assistant turn carrying that text to the end of the message sequence.
C2_GrowsByTwo ==
    (Answered /\ HasExtractableText(last_call.backend.val)) =>
        messages = last_call.before \o
                     << Msg("user", last_call.input_text),
                        Msg("assistant", ContentString(last_call.backend.val)) >>

\* C2 witness: a reply with surrounding whitespace was appended after an
\* earlier exchange.
C2_Witness ==
    /\ Answered
    /\ last_call.backend.val = Completion(Str(<<" ", "n", "\n">>))
    /\ Len(last_call.before) = 3
    /\ Len(messages) = 5

\* C3: a call with a non-None user text whose response has no extractable text
\* appends the user turn only, and the extraction raises nothing.
C3_GrowsByOne ==
    (Answered /\ ~HasExtractableText(last_call.backend.val)) =>
        /\ messages = Append(last_call.before, Msg("user", last_call.input_text))
        /\ last_call.exc = ""

\* C3 witness: a response without any choice, and a whitespace-only reply.
C3_Witness ==
    /\ Answered
    /\ last_call.backend.val \in
          { Obj(<< <<Word("choices"), List(<<>>)>> >>),
            Completion(Str(<<" ", "\n">>)) }
    /\ Len(messages) = Len(last_call.before) + 1

\* C4: a call without user text (None) raises ValueError, sends nothing to the
\* backend and leaves the message sequence as it was.
C4_NoneRejected ==
    (last_call.exc # "none" /\ last_call.input_text = PyNone) =>
        /\ last_call.exc = "ValueError"
        /\ last_call.sent = <<>>
        /\ messages = last_call.before

\* C4 witness: a None call on an engine that already holds an exchange.
C4_Witness ==
    /\ last_call.exc = "ValueError"
    /\ last_call.input_text = PyNone
    /\ Len(messages) = 3

\* The message list the call works on once the user turn is recorded.
WithTurn == Append(last_call.before, Msg("user", last_call.input_text))

\* C15: the request create_completion sends is {model: the configured model,
\* messages: the whole message sequence, system prompt first and the new user
\* turn last} with the extra options merged over it, the extra option winning
\* on every key it names; an override changes neither the stored message
\* sequence nor the stored system prompt.
C15_RequestShape ==
    (last_call.sent # <<>>) =>
        LET request == last_call.sent[1]
            kwargs  == last_call.kwargs
        IN  /\ DOMAIN request = {"model", "messages"} \cup DOMAIN kwargs
            /\ \A k \in DOMAIN kwargs : request[k] = kwargs[k]
            /\ ("model" \notin DOMAIN kwargs) =>
                   request.model = Str(<<"demo-model">>)
            /\ ("messages" \notin DOMAIN kwargs) =>
                   /\ request.messages = List(WithTurn)
                   /\ request.messages.v[1] = Msg("system", system_prompt)
                   /\ request.messages.v[Len(request.messages.v)] =
                          Msg("user", last_call.input_text)
            /\ SubSeq(messages, 1, Len(WithTurn)) = WithTurn

\* C15 witness: a request whose model was overridden, and one whose messages
\* were, sent by an engine that already holds an exchange.
C15_Witness ==
    /\ Len(last_call.before) = 3
    /\ last_call.sent # <<>>
    /\ \/ /\ last_call.kwargs = [model |-> Str(<<"other-model">>)]
          /\ last_call.sent[1].model = Str(<<"other-model">>)
       \/ /\ last_call.kwargs = [messages |-> List(<<>>)]
          /\ last_call.sent[1].messages = List(<<>>)
          /\ Len(messages) = 5

\* C16: a call whose backend invocation fails invokes the backend exactly
\* once, raises the backend's error to the caller, and leaves the message
\* sequence with the user turn appended and no assistant turn.
C16_BackendFailure ==
    (last_call.backend.exc = "APIError") =>
        /\ Len(last_call.sent) = 1
        /\ last_call.exc = "APIError"
        /\ messages = WithTurn

\* C16 witness: the backend failed on the second call of an engine.
C16_Witness ==
    /\ last_call.backend = Raise("APIError")
    /\ Len(last_call.before) = 3
    /\ Len(messages) = 4
    /\ messages[4] = Msg("user", last_call.input_text)

\* s is a prefix of t.
IsPrefix(s, t) == Len(s) <= Len(t) /\ SubSeq(t, 1, Len(s)) = s

Role(m) == Lookup(m.v, Word("role"))

\* Exactly one system entry, and each assistant entry right after a user entry.
HistoryShape ==
    /\ Cardinality({i \in 1..Len(messages) : Role(messages[i]) = Str(Word("system"))}) = 1
    /\ \A i \in 1..Len(messages) :
          (Role(messages[i]) = Str(Word("assistant"))) =>
              (i > 1 /\ Role(messages[i - 1]) = Str(Word("user")))

\* C19: the message sequence is append-only (the sequence before a call is a
\* prefix of the sequence after it), and in every reachable state there is
\* exactly one system entry and each assistant entry is immediately preceded
\* by a user entry, so no two assistant entries are adjacent.
C19_HistoryShape ==
    /\ []HistoryShape
    /\ [][IsPrefix(messages, messages')]_vars

\* C19 witness: two exchanges, user and assistant alternating after the
\* system prompt, the second user text being empty.
C19_Witness ==
    /\ Len(messages) = 5
    /\ Role(messages[2]) = Str(Word("user"))
    /\ Role(messages[3]) = Str(Word("assistant"))
    /\ messages[4] = Msg("user", Str(<<>>))
    /\ Role(messages[5]) = Str(Word("assistant"))

-----------------------------------------------------------------------------
(* Variant A, create_completion statement by statement.  The conversion     *)
(* handle_response is the subclass's: the shipped SpanishAITutor's, or one   *)
(* that raises.                                                              *)

\* (mutant) the response is converted before the assistant turn is recorded
StepAfter_ConvertFirst(pc) ==
    CASE pc = "check"       -> "append_user"
      [] pc = "append_user" -> "invoke"
      [] pc = "invoke"      -> "convert"
      [] pc = "convert"     -> "extract"
      [] pc = "extract"     -> "done"

\* The statement that follows pc when pc completes normally.
StepAfter(pc) ==
    CASE pc = "check"       -> "append_user"
      [] pc = "append_user" -> "invoke"
      [] pc = "invoke"      -> "extract"
      [] pc = "extract"     -> "convert"
      [] pc = "convert"     -> "done"

\* What self.handle_response(response) may do: return what the shipped
\* persona returns, or raise (a subclass whose conversion fails).
HandleOutcomes(response) == {handle_response(response), Raise("ValueError")}

\* The call leaves create_completion with an exception raised in `where`.
Raised(f, e, where) == [f EXCEPT !.pc = "done", !.exc = e, !.raised_in = where]

InitSteps ==
    /\ system_prompt \in SystemPrompts
    /\ messages = NewMessages(system_prompt)
    /\ last_call = NoCall
    /\ calls = 0
    /\ frame = NoFrame
    /\ IdleB /\ IdleStore /\ IdleUI /\ IdleConfig

\* create_completion(input_text, **kwargs) is entered.
Call ==
    /\ frame.pc \in {"idle", "done"}
    /\ calls < MaxCalls
    /\ \E input_text \in InputTexts, kwargs \in KwargsChoices :
          frame' = [NoFrame EXCEPT !.pc = "check", !.input_text = input_text,
                                   !.kwargs = kwargs, !.before = messages]
    /\ calls' = calls + 1
    /\ UNCHANGED <<system_prompt, messages, last_call, varsB, varsStore, varsUI, varsConfig>>

\* if input_text is None: raise ValueError
CheckInput ==
    /\ frame.pc = "check"
    /\ frame' = IF InputRejected(frame.input_text)
                THEN Raised(frame, "ValueError", "check")
                ELSE [frame EXCEPT !.pc = StepAfter("check")]
    /\ UNCHANGED <<system_prompt, messages, last_call, calls, varsB, varsStore, varsUI, varsConfig>>

\* self.__messages.append({"role": "user", "content": input_text})
AppendUser ==
    /\ frame.pc = "append_user"
    /\ messages' = WithUserTurn(messages, frame.input_text)
    /\ frame' = [frame EXCEPT !.pc = StepAfter("append_user")]
    /\ UNCHANGED <<system_prompt, last_call, calls, varsB, varsStore, varsUI, varsConfig>>

\* The payload is built and chat.completions.create(**payload) is called.
InvokeBackend ==
    /\ frame.pc = "invoke"
    /\ \E backend \in BackendOutcomes :
          LET sent == [frame EXCEPT !.request = <<Payload(messages, frame.kwargs)>>]
          IN  frame' = IF backend.exc # ""
                       THEN Raised(sent, backend.exc, "backend")
                       ELSE [sent EXCEPT !.response = backend,
                                         !.pc = StepAfter("invoke")]
    /\ UNCHANGED <<system_prompt, messages, last_call, calls, varsB, varsStore, varsUI, varsConfig>>

\* The text is extracted and, when it survives strip(), appended.
ExtractAndAppend ==
    /\ frame.pc = "extract"
    /\ LET extracted == extract_assistant_content(frame.response.val)
       IN  IF extracted.exc # ""
           THEN /\ frame' = Raised(frame, extracted.exc, "extract")
                /\ UNCHANGED messages
           ELSE /\ messages' = AfterResponse(messages, frame.response.val)
                /\ frame' = [frame EXCEPT !.pc = StepAfter("extract")]
    /\ UNCHANGED <<system_prompt, last_call, calls, varsB, varsStore, varsUI, varsConfig>>

\* return self.handle_response(response)
Convert ==
    /\ frame.pc = "convert"
    /\ \E out \in HandleOutcomes(frame.response.val) :
          frame' = IF out.exc # ""
                   THEN Raised(frame, out.exc, "handle_response")
                   ELSE [frame EXCEPT !.ret = out.val, !.pc = StepAfter("convert")]
    /\ UNCHANGED <<system_prompt, messages, last_call, calls, varsB, varsStore, varsUI, varsConfig>>

NextSteps ==
    \/ Call
    \/ CheckInput
    \/ AppendUser
    \/ InvokeBackend
    \/ ExtractAndAppend
    \/ Convert

SpecSteps == InitSteps /\ [][NextSteps]_vars

\* The message list the call in progress should hold once the response has
\* been looked at: the user turn, and the assistant turn when the response
\* has text.
FrameTurn == Append(frame.before, Msg("user", frame.input_text))

FrameTurns ==
    IF HasExtractableText(frame.response.val)
    THEN Append(FrameTurn, Msg("assistant", ContentString(frame.response.val)))
    ELSE FrameTurn

\* C17: within one create_completion call the user turn is in the message
\* sequence when the backend is invoked, and the assistant turn (if any) is in
\* it when handle_response is invoked; a handle_response that fails leaves
\* both appends in place.
C17_AppendThenConvert ==
    /\ (frame.pc = "invoke") => messages = FrameTurn
    /\ (frame.request # <<>> /\ "messages" \notin DOMAIN frame.kwargs) =>
           frame.request[1].messages = List(FrameTurn)
    /\ (frame.pc = "convert") => messages = FrameTurns
    /\ (frame.pc = "done" /\ frame.raised_in = "handle_response") =>
           messages = FrameTurns

\* C17 witness: handle_response raised on a response with text, in the second
\* call of an engine; the user and the assistant turn of that call are kept.
C17_Witness ==
    /\ frame.pc = "done"
    /\ frame.raised_in = "handle_response"
    /\ Len(frame.before) = 3
    /\ Len(messages) = 5
    /\ messages[5] = Msg("assistant", Str(<<" ", "n", "\n">>))

-----------------------------------------------------------------------------
(* Variant B: openai_core.py, spanish_ai_tutor.py *)

\* OpenAIConfig.model_name of the configuration the engine is built with
model_name_B == Str(Word("demo-model"))

\* OpenAICore.__init__: no response has been seen
NoPreviousResponse == PyNone

\* The request starts from model, input and instructions; the stored
\* identifier is added when there is one.
BasePayloadB(prev, input_text) ==
    LET base == [model |-> model_name_B, input |-> input_text,
                 instructions |-> TutorPrompt]
    IN  IF prev # PyNone
        THEN Update(base, [previous_response_id |-> prev])
        ELSE base

\* The request create_response sends.
PayloadB(prev, input_text, kwargs) ==
    Update(BasePayloadB(prev, input_text), kwargs)

\* (mutant) any identifier but None is stored, the empty one included
StoresId_NotNone(id) == id # PyNone

\* `if response.id:`
StoresId(id) == Truthy(id)

\* SpanishAITutor.handle_response (Variant B)
handle_response_B(response) ==
    LET r == GetAttr(Ok(response), Word("output_text"))
    IN  IF r.exc # "" THEN r
        ELSE IF Truthy(r.val) THEN r ELSE Ok(Str(<<>>))

\* (mutant) a failed backend call forgets the stored identifier
create_response_ClearsOnFailure(prev, input_text, kwargs, backend) ==
    LET payload == PayloadB(prev, input_text, kwargs)
    IN  IF backend.exc # ""
        THEN [prev |-> PyNone, exc |-> backend.exc, ret |-> PyNone,
              sent |-> payload]
        ELSE LET id == GetAttr(backend, Word("id"))
                 out == handle_response_B(backend.val)
             IN  IF id.exc # ""
                 THEN [prev |-> prev, exc |-> id.exc, ret |-> PyNone,
                       sent |-> payload]
                 ELSE [prev |-> IF StoresId(id.val) THEN id.val ELSE prev,
                       exc |-> out.exc, ret |-> out.val, sent |-> payload]

\* OpenAICore.create_response with the stored identifier prev: the identifier
\* stored afterwards, the exception raised (if any), the value returned and
\* the request sent.
create_response(prev, input_text, kwargs, backend) ==
    LET payload == PayloadB(prev, input_text, kwargs)
    IN  IF backend.exc # ""
        THEN [prev |-> prev, exc |-> backend.exc, ret |-> PyNone,
              sent |-> payload]
        ELSE LET id == GetAttr(backend, Word("id"))
                 out == handle_response_B(backend.val)
             IN  IF id.exc # ""
                 THEN [prev |-> prev, exc |-> id.exc, ret |-> PyNone,
                       sent |-> payload]
                 ELSE [prev |-> IF StoresId(id.val) THEN id.val ELSE prev,
                       exc |-> out.exc, ret |-> out.val, sent |-> payload]

(* Inputs of the Variant B engine *)

InputTextsB == {Str(<<>>), Str(<<"n">>)}

KwargsChoicesB ==
    { NoKwargs,
      [model |-> Str(Word("other-model"))],
      [previous_response_id |-> Str(Word("resp_other"))],
      [previous_response_id |-> PyNone] }

ResponseB(id, text) ==
    Obj(<< <<Word("id"), id>>, <<Word("output_text"), text>> >>)

ResponsesB ==
    { ResponseB(PyNone, Str(<<"n">>)),
      ResponseB(Str(<<>>), Str(<<>>)),
      ResponseB(Str(Word("resp_1")), Str(<<"n">>)),
      ResponseB(Str(Word("resp_2")), PyNone),
      Obj(<< <<Word("output_text"), Str(<<"n">>)>> >>),     \* no id field
      Obj(<< <<Word("id"), Str(Word("resp_3"))>> >>) }       \* no output_text field

BackendOutcomesB == {Raise("APIError")} \cup {Ok(r) : r \in ResponsesB}

\* OpenAICore.__init__
InitB ==
    /\ previous_response_id = NoPreviousResponse
    /\ exchanges = <<>>
    /\ IdleA /\ IdleStore /\ IdleUI /\ IdleConfig

\* One call of create_response(input_text, **kwargs), with the backend's answer.
CreateResponse ==
    /\ Len(exchanges) < MaxCalls
    /\ \E input_text \in InputTextsB, kwargs \in KwargsChoicesB,
          backend \in BackendOutcomesB :
          LET r == create_response(previous_response_id, input_text, kwargs, backend)
          IN  /\ previous_response_id' = r.prev
              /\ exchanges' = Append(exchanges,
                                  [input_text |-> input_text, kwargs |-> kwargs,
                                   request |-> r.sent, backend |-> backend,
                                   exc |-> r.exc, ret |-> r.ret])
    /\ UNCHANGED <<varsA, varsStore, varsUI, varsConfig>>

NextB == CreateResponse

SpecB == InitB /\ [][NextB]_vars

(* Variant B: properties *)

\* The identifier a response carries, when it carries one.
CarriesId(backend) ==
    /\ backend.exc = ""
    /\ \E i \in 1..Len(backend.val.v) :
          /\ backend.val.v[i][1] = Word("id")
          /\ backend.val.v[i][2].t = "str"
          /\ backend.val.v[i][2].v # <<>>

IdOf(backend) ==
    backend.val.v[CHOOSE i \in 1..Len(backend.val.v) :
                     backend.val.v[i][1] = Word("id")][2]

\* The identifier of the most recent of the first n responses that carried
\* one; None when none did.
RECURSIVE LatestId(_)
LatestId(n) ==
    IF n = 0 THEN PyNone
    ELSE IF CarriesId(exchanges[n].backend) THEN IdOf(exchanges[n].backend)
    ELSE LatestId(n - 1)

\* Request i threads the conversation: it carries the latest identifier, or
\* no previous_response_id when there is none yet.
Threads(i) ==
    IF LatestId(i - 1) = PyNone
    THEN "previous_response_id" \notin DOMAIN exchanges[i].request
    ELSE /\ "previous_response_id" \in DOMAIN exchanges[i].request
         /\ exchanges[i].request.previous_response_id = LatestId(i - 1)

\* C5 as claimed: every request carries the identifier of the most recent
\* response that carried one, and the first request carries none.
C5_EveryRequestThreads ==
    \A i \in 1..Len(exchanges) : Threads(i)

\* C5 (amended): the stored token is the identifier of the most recent
\* response that carried one; every request whose extra options do not name
\* previous_response_id threads the conversation, and a request whose extra
\* options name it carries the caller's value instead.
C5_RequestThreadsUnlessOverridden ==
    /\ previous_response_id = LatestId(Len(exchanges))
    /\ \A i \in 1..Len(exchanges) :
          IF "previous_response_id" \in DOMAIN exchanges[i].kwargs
          THEN exchanges[i].request.previous_response_id =
                  exchanges[i].kwargs.previous_response_id
          ELSE Threads(i)

\* C5 witness: the second of two calls carries the identifier the first
\* response returned.
C5_Witness ==
    /\ Len(exchanges) = 2
    /\ exchanges[1].backend = Ok(ResponseB(Str(Word("resp_1")), Str(<<"n">>)))
    /\ exchanges[2].kwargs = NoKwargs
    /\ exchanges[2].request.previous_response_id = Str(Word("resp_1"))

\* C13: a create_response call changes the stored token only when the
\* response carries a truthy identifier, and then the token is that
\* identifier; a response without identifier or with an empty one, and a
\* failed backend call, leave the token as it was; once set the token is
\* never cleared.
C13_TokenUpdate ==
    [][ (Len(exchanges') = Len(exchanges) + 1) =>
            LET backend == exchanges'[Len(exchanges')].backend
            IN  /\ IF CarriesId(backend)
                   THEN previous_response_id' = IdOf(backend)
                   ELSE previous_response_id' = previous_response_id
                /\ (previous_response_id # PyNone) =>
                       (previous_response_id' # PyNone) ]_vars

\* C13 witness: the token set by a first response survives a failed backend
\* call, and in another run a response without identifier.
C13_Witness ==
    /\ Len(exchanges) = 2
    /\ exchanges[1].backend = Ok(ResponseB(Str(Word("resp_1")), Str(<<"n">>)))
    /\ exchanges[2].backend \in
          { Raise("APIError"), Ok(Obj(<< <<Word("output_text"), Str(<<"n">>)>> >>)) }
    /\ previous_response_id = Str(Word("resp_1"))

-----------------------------------------------------------------------------
(* Transcript store: spanish_tutor_app.py, _load_history / _save_history *)

\* SpanishTutorUI.ALLOWED_ROLES
ALLOWED_ROLES == {Word("system"), Word("developer"), Word("user"), Word("assistant")}

(* Text <-> bytes.  Every character is one byte of the file except the     *)
(* non-ASCII letter U+00F1, which UTF-8 writes as the two bytes C3 B1.     *)

EncodeChar(c) == IF c = "U+00F1" THEN <<"C3", "B1">> ELSE <<c>>

\* str.encode("utf-8")
RECURSIVE Encode(_)
Encode(text) ==
    IF Len(text) = 0 THEN <<>>
    ELSE IF Len(text) = 1 THEN EncodeChar(text[1])
    ELSE LET half == Len(text) \div 2
         IN  Encode(SubSeq(text, 1, half)) \o Encode(SubSeq(text, half + 1, Len(text)))

\* The bytes are well-formed UTF-8: every lead byte C3 is followed by its
\* continuation byte B1, and B1 appears nowhere else.
ValidUtf8(bytes) ==
    \A i \in 1..Len(bytes) :
        /\ bytes[i] = "C3" => (i < Len(bytes) /\ bytes[i + 1] = "B1")
        /\ bytes[i] = "B1" => (i > 1 /\ bytes[i - 1] = "C3")

NotContinuation(b) == b # "B1"

\* bytes.decode("utf-8"): the text, or UnicodeDecodeError on a lead byte
\* without its continuation byte or a continuation byte on its own.
Decode(bytes) ==
    IF ~ValidUtf8(bytes) THEN Raise("UnicodeDecodeError")
    ELSE LET leads == SelectSeq(bytes, NotContinuation)
         IN  Ok([i \in 1..Len(leads) |->
                    IF leads[i] = "C3" THEN "U+00F1" ELSE leads[i]])

(* json.dumps(value, ensure_ascii=False, indent=2) *)

Indent(n) == [i \in 1..n |-> " "]

\* (mutant) the backslash is written as it is
EscapeChar_RawBackslash(c) ==
    CASE c = "\"" -> <<"\\", "\"">>
      [] c = "\n" -> <<"\\", "n">>
      [] OTHER    -> <<c>>

\* One character of a JSON string literal.
EscapeChar(c) ==
    CASE c = "\"" -> <<"\\", "\"">>
      [] c = "\\" -> <<"\\", "\\">>
      [] c = "\n" -> <<"\\", "n">>
      [] OTHER    -> <<c>>

RECURSIVE Escape(_)
Escape(text) ==
    IF text = <<>> THEN <<>> ELSE EscapeChar(Head(text)) \o Escape(Tail(text))

Quoted(text) == <<"\"">> \o Escape(text) \o <<"\"">>

RECURSIVE DumpsValue(_, _)
RECURSIVE DumpsItems(_, _, _)
RECURSIVE DumpsMembers(_, _, _)

\* The items of a list from the i-th on, each on its own indented line.
DumpsItems(items, i, level) ==
    IF i > Len(items) THEN <<>>
    ELSE (IF i > 1 THEN <<",">> ELSE <<>>)
         \o <<"\n">> \o Indent(2 * level) \o DumpsValue(items[i], level)
         \o DumpsItems(items, i + 1, level)

\* The members of a dict from the i-th on, as "key": value lines.
DumpsMembers(pairs, i, level) ==
    IF i > Len(pairs) THEN <<>>
    ELSE (IF i > 1 THEN <<",">> ELSE <<>>)
         \o <<"\n">> \o Indent(2 * level) \o Quoted(pairs[i][1]) \o <<":", " ">>
         \o DumpsValue(pairs[i][2], level)
         \o DumpsMembers(pairs, i + 1, level)

DumpsValue(x, level) ==
    CASE x.t = "None" -> <<"null">>
      [] x.t = "int"  -> <<ToString(x.v)>>
      [] x.t = "str"  -> Quoted(x.v)
      [] x.t = "list" ->
            IF x.v = <<>> THEN <<"[", "]">>
            ELSE <<"[">> \o DumpsItems(x.v, 1, level + 1)
                 \o <<"\n">> \o Indent(2 * level) \o <<"]">>
      [] x.t = "dict" ->
            IF x.v = <<>> THEN <<"{", "}">>
            ELSE <<"{">> \o DumpsMembers(x.v, 1, level + 1)
                 \o <<"\n">> \o Indent(2 * level) \o <<"}">>

Dumps(x) == DumpsValue(x, 0)

(* json.loads(text).  A parse step yields [ok, val, pos]: whether it        *)
(* succeeded, the value, and the position after it.                        *)

ParseFail == [ok |-> FALSE, val |-> PyNone, pos |-> 0]
Parsed(x, pos) == [ok |-> TRUE, val |-> x, pos |-> pos]

RECURSIVE SkipWs(_, _)
SkipWs(s, i) ==
    IF i <= Len(s) /\ s[i] \in Whitespace THEN SkipWs(s, i + 1) ELSE i

At(s, i, c) == i <= Len(s) /\ s[i] = c

\* The body of a string literal from position i, the opening quote read.
RECURSIVE ParseChars(_, _, _)
ParseChars(s, i, acc) ==
    IF i > Len(s) THEN ParseFail
    ELSE IF s[i] = "\"" THEN Parsed(Str(acc), i + 1)
    ELSE IF s[i] = "\n" THEN ParseFail
    ELSE IF s[i] = "\\"
         THEN IF i + 1 > Len(s) THEN ParseFail
              ELSE CASE s[i + 1] = "\"" -> ParseChars(s, i + 2, Append(acc, "\""))
                     [] s[i + 1] = "\\" -> ParseChars(s, i + 2, Append(acc, "\\"))
                     [] s[i + 1] = "n"  -> ParseChars(s, i + 2, Append(acc, "\n"))
                     [] OTHER -> ParseFail
    ELSE ParseChars(s, i + 1, Append(acc, s[i]))

\* dict[key] = value: a key seen before keeps its place and takes the value.
SetItem(pairs, key, value) ==
    IF HasKey(pairs, key)
    THEN [i \in 1..Len(pairs) |->
             IF pairs[i][1] = key THEN <<key, value>> ELSE pairs[i]]
    ELSE Append(pairs, <<key, value>>)

Numerals == {"0", "1"}
NumeralValue(w) == IF w = "0" THEN 0 ELSE 1

RECURSIVE ParseValue(_, _)
RECURSIVE ParseItems(_, _, _)
RECURSIVE ParseMembers(_, _, _)

\* The items of an array, position i at the start of an item.
ParseItems(s, i, acc) ==
    LET item == ParseValue(s, i)
    IN  IF ~item.ok THEN ParseFail
        ELSE LET j == SkipWs(s, item.pos)
             IN  IF At(s, j, ",")
                 THEN ParseItems(s, SkipWs(s, j + 1), Append(acc, item.val))
                 ELSE IF At(s, j, "]")
                 THEN Parsed(List(Append(acc, item.val)), j + 1)
                 ELSE ParseFail

\* The members of an object, position i at the opening quote of a key.
ParseMembers(s, i, acc) ==
    IF ~At(s, i, "\"") THEN ParseFail
    ELSE LET key == ParseChars(s, i + 1, <<>>)
         IN  IF ~key.ok THEN ParseFail
             ELSE LET c == SkipWs(s, key.pos)
                  IN  IF ~At(s, c, ":") THEN ParseFail
                      ELSE LET value == ParseValue(s, SkipWs(s, c + 1))
                           IN  IF ~value.ok THEN ParseFail
                               ELSE LET j == SkipWs(s, value.pos)
                                        more == SetItem(acc, key.val.v, value.val)
                                    IN  IF At(s, j, ",")
                                        THEN ParseMembers(s, SkipWs(s, j + 1), more)
                                        ELSE IF At(s, j, "}")
                                        THEN Parsed(Dict(more), j + 1)
                                        ELSE ParseFail

\* One JSON value starting at position i.
ParseValue(s, i) ==
    IF i > Len(s) THEN ParseFail
    ELSE CASE s[i] = "\"" -> ParseChars(s, i + 1, <<>>)
           [] s[i] = "["  ->
                 LET j == SkipWs(s, i + 1)
                 IN  IF At(s, j, "]") THEN Parsed(List(<<>>), j + 1)
                     ELSE ParseItems(s, j, <<>>)
           [] s[i] = "{"  ->
                 LET j == SkipWs(s, i + 1)
                 IN  IF At(s, j, "}") THEN Parsed(Dict(<<>>), j + 1)
                     ELSE ParseMembers(s, j, <<>>)
           [] s[i] = "null" -> Parsed(PyNone, i + 1)
           [] s[i] \in Numerals -> Parsed(Int(NumeralValue(s[i])), i + 1)
           [] OTHER -> ParseFail

\* json.loads: one value, whitespace around it, nothing after it.
Loads(text) ==
    LET r == ParseValue(text, SkipWs(text, 1))
    IN  IF r.ok /\ SkipWs(text, r.pos) = Len(text) + 1
        THEN Ok(r.val)
        ELSE Raise("JSONDecodeError")

(* The file: [kind, bytes], kind one of "absent", "unreadable", "file".     *)
(* "unreadable" is a path that cannot be opened at all (a directory at the  *)
(* path): read_text and write_text both raise OSError on it.                *)

NoFile == [kind |-> "absent", bytes |-> <<>>]
FileOf(bytes) == [kind |-> "file", bytes |-> bytes]

\* HISTORY_PATH.read_text(encoding="utf-8")
ReadText(f) ==
    IF f.kind # "file" THEN Raise("OSError") ELSE Decode(f.bytes)

\* dict.get(key): the value, None when the key is absent
Get(item, key) ==
    IF HasKey(item.v, key) THEN Lookup(item.v, key) ELSE PyNone

\* `x in ALLOWED_ROLES`: hashing x raises TypeError for a list or a dict.
InAllowedRoles(x) ==
    IF x.t \in {"list", "dict"} THEN Raise("TypeError")
    ELSE Ok(x.t = "str" /\ x.v \in ALLOWED_ROLES)

\* The condition of the comprehension in _load_history, evaluated left to
\* right: TRUE, FALSE, or the exception raised on the way.
Keeps(item) ==
    IF item.t # "dict" THEN Ok(FALSE)
    ELSE LET allowed == InAllowedRoles(Get(item, Word("role")))
         IN  IF allowed.exc # "" THEN allowed
             ELSE Ok(/\ allowed.val
                     /\ Get(item, Word("content")).t = "str"
                     /\ Strip(Get(item, Word("content")).v) # <<>>)

RECURSIVE FilterItems(_)
FilterItems(items) ==
    IF items = <<>> THEN Ok(<<>>)
    ELSE LET keep == Keeps(Head(items))
         IN  IF keep.exc # "" THEN keep
             ELSE LET rest == FilterItems(Tail(items))
                  IN  IF rest.exc # "" THEN rest
                      ELSE Ok((IF keep.val THEN <<Head(items)>> ELSE <<>>) \o rest.val)

\* The exceptions _load_history turns into an empty history.
LoadCaught == {"JSONDecodeError", "OSError"}

\* SpanishTutorUI._load_history on file f: the list returned, or the
\* exception that escapes.
load_history(f) ==
    IF f.kind = "absent" THEN Ok(<<>>)
    ELSE LET text == ReadText(f)
             data == IF text.exc # "" THEN text ELSE Loads(text.val)
         IN  IF data.exc \in LoadCaught THEN Ok(<<>>)
             ELSE IF data.exc # "" THEN Raise(data.exc)
             ELSE IF data.val.t = "list" THEN FilterItems(data.val.v)
             ELSE Ok(<<>>)

\* What _save_history writes for the list msgs.
Written(msgs) == Encode(Dumps(List(msgs)))

\* SpanishTutorUI._save_history: the file afterwards.
save_history(msgs) == FileOf(Written(msgs))

(* The store on its own: lists are saved (the process may die in the       *)
(* middle of the write) and the file is loaded back.                       *)

\* Entries a message list handed to _save_history may hold.
Entries ==
    { Msg("user", Str(<<"U+00F1">>)),
      Msg("assistant", Str(<<"\\", "n">>)),
      Msg("developer", Str(<<" ", "\"", "\n", "n">>)),
      Msg("assistant", Str(<<" ", "\n">>)),
      Msg("tool", Str(<<"n">>)) }

RECURSIVE ListsUpTo(_)
ListsUpTo(n) ==
    IF n = 0 THEN {<<>>}
    ELSE LET shorter == ListsUpTo(n - 1)
         IN  shorter \cup {Append(l, e) : l \in {m \in shorter : Len(m) = n - 1},
                                           e \in Entries}

MessageLists == ListsUpTo(MaxMessages)

\* Files found at start-up that hold no JSON list: unreadable, empty, not
\* JSON, JSON followed by more, or a JSON value of another type.
MalformedFiles ==
    { [kind |-> "unreadable", bytes |-> <<>>],
      FileOf(<<>>),
      FileOf(<<"not", " ", "json">>),
      FileOf(<<"[", "]", " ", "[", "]">>),
      FileOf(Encode(Dumps(PyNone))),
      FileOf(Encode(Dumps(Dict(<<>>)))),
      FileOf(Encode(Dumps(Msg("user", Str(<<"n">>))))),
      FileOf(Encode(Dumps(Str(<<"n">>)))) }

\* Files found at start-up that hold a JSON list the application did not
\* write.
ForeignLists ==
    { FileOf(Encode(Dumps(List(<< Int(1), PyNone, Str(<<"n">>), List(<<>>),
                                  Msg("user", Str(<<"n">>)) >>)))),
      FileOf(Encode(Dumps(List(<<
          Dict(<< <<Word("role"), Str(Word("user"))>> >>),
          Dict(<< <<Word("content"), Str(<<"n">>)>> >>),
          Dict(<< <<Word("role"), Str(Word("user"))>>,
                  <<Word("content"), PyNone>> >>),
          Dict(<< <<Word("role"), Int(1)>>,
                  <<Word("content"), Str(<<"n">>)>> >>),
          Dict(<< <<Word("content"), Str(<<"U+00F1">>)>>,
                  <<Word("role"), Str(Word("assistant"))>>,
                  <<Word("note"), Int(0)>> >>) >>)))),
      FileOf(Encode(Dumps(List(<<
          Msg("user", Str(<<"n">>)),
          Dict(<< <<Word("role"), List(<<Str(Word("user"))>>)>>,
                  <<Word("content"), Str(<<"n">>)>> >>) >>)))) }

ForeignFiles == MalformedFiles \cup ForeignLists

InitStore ==
    /\ file \in {NoFile} \cup ForeignFiles
    /\ saved = <<>>
    /\ loaded = Raise("none")
    /\ store_pc = "start"
    /\ IdleA /\ IdleB /\ IdleUI /\ IdleConfig

\* The file after write_text(text) on file f, and whether OSError is raised:
\* a path that cannot be opened stays as it is.
WriteText(f, written) ==
    IF f.kind = "unreadable"
    THEN [file |-> f, exc |-> "OSError"]
    ELSE [file |-> written, exc |-> ""]

\* _save_history(msgs) runs to its end: the file is rewritten, or write_text
\* raises OSError and the file is left as it was.
SaveHistory ==
    /\ store_pc = "start" /\ loaded = Raise("none")
    /\ \E msgs \in MessageLists :
          LET w == WriteText(file, save_history(msgs))
          IN  /\ file' = w.file
              /\ saved' = msgs
              /\ store_pc' = IF w.exc = "" THEN "saved" ELSE "save_failed"
    /\ loaded' = Raise("none")
    /\ UNCHANGED <<varsA, varsB, varsUI, varsConfig>>

\* The process dies inside write_text: the file was truncated when it was
\* opened and holds only the first n bytes of what was being written.
SaveHistoryCrash ==
    /\ store_pc = "start" /\ loaded = Raise("none")
    /\ file.kind # "unreadable"
    /\ \E msgs \in MessageLists :
          LET bytes == Written(msgs)
          IN  /\ \E n \in 0..(Len(bytes) - 1) :
                    file' = FileOf(SubSeq(bytes, 1, n))
              /\ saved' = msgs
    /\ loaded' = Raise("none")
    /\ store_pc' = "crashed"
    /\ UNCHANGED <<varsA, varsB, varsUI, varsConfig>>

\* _load_history()
LoadHistory ==
    /\ loaded = Raise("none")
    /\ loaded' = load_history(file)
    /\ UNCHANGED <<file, saved, store_pc, varsA, varsB, varsUI, varsConfig>>

NextStore == SaveHistory \/ SaveHistoryCrash \/ LoadHistory

SpecStore == InitStore /\ [][NextStore]_vars

(* Transcript store: properties *)

\* An entry as the claims require it: a role of the allow-list and a content
\* with something other than whitespace in it.
ValidEntry(m) ==
    /\ m.t = "dict"
    /\ \E i \in 1..Len(m.v) :
          /\ m.v[i][1] = Word("role")
          /\ m.v[i][2].t = "str"
          /\ m.v[i][2].v \in {Word("system"), Word("developer"),
                              Word("user"), Word("assistant")}
    /\ \E i \in 1..Len(m.v) :
          /\ m.v[i][1] = Word("content")
          /\ m.v[i][2].t = "str"
          /\ NonBlank(m.v[i][2].v)

AllValid(msgs) == \A i \in 1..Len(msgs) : ValidEntry(msgs[i])

\* C6: _save_history(messages) followed by _load_history(), for a list whose
\* entries all have an allowed role and a content that is non-empty after
\* trimming, returns a list equal to messages.
C6_RoundTrip ==
    (store_pc = "saved" /\ loaded # Raise("none") /\ AllValid(saved)) =>
        loaded = Ok(saved)

\* C6 witness: two entries with a quote, a line break, surrounding
\* whitespace and a non-ASCII letter came back.
C6_Witness ==
    /\ store_pc = "saved"
    /\ saved = << Msg("developer", Str(<<" ", "\"", "\n", "n">>)),
                  Msg("user", Str(<<"U+00F1">>)) >>
    /\ loaded = Ok(saved)

\* C7: when the file is absent, unreadable, holds no JSON list, or was left
\* truncated by a crash in the middle of a rewrite, _load_history returns
\* the empty list and raises nothing.
C7_LoadNeverRaises ==
    ( /\ loaded # Raise("none")
      /\ \/ store_pc = "crashed"
         \/ /\ store_pc \in {"start", "save_failed"}
            /\ file \in {NoFile} \cup MalformedFiles ) =>
        loaded = Ok(<<>>)

\* The value the file parses to, when it decodes and parses.
FileData == LET text == ReadText(file)
            IN  IF text.exc # "" THEN text ELSE Loads(text.val)

\* C14: when the file parses to a sequence, _load_history returns exactly the
\* entries of that sequence, in their order and unaltered, that are objects
\* with a role of the allow-list and a string content non-empty after
\* trimming; every other entry is dropped.
C14_FilterKeepsValid ==
    (loaded # Raise("none") /\ FileData.exc = "" /\ FileData.val.t = "list") =>
        loaded = Ok(SelectSeq(FileData.val.v, ValidEntry))

-----------------------------------------------------------------------------
(* Front end: spanish_tutor_app.py.  Every browser session runs the script *)
(* against its own st.session_state; all of them share chat_history.json   *)
(* and chat_history.lock.  A script run is cut at the lock: acquiring it,  *)
(* the read or write made while holding it, and releasing it are steps of  *)
(* their own, so the runs of the sessions interleave there.  What is       *)
(* computed from a session's own data alone is computed in a step outside  *)
(* the lock: the text json.dumps produces is ready when the lock is        *)
(* requested, and what read_text returned is parsed and filtered once the  *)
(* lock is released.  No other session can tell the difference.            *)

Sessions == {1, 2}

NoHolder == 0

\* st.session_state of a session that has not run the script yet
NewSession ==
    [pc |-> "idle", has_messages |-> FALSE, msgs |-> <<>>,
     has_tutor |-> FALSE, tutor |-> <<>>,
     prompt |-> PyNone, after |-> "idle", pending |-> Raise("none"),
     io |-> NoFile, reply |-> PyNone,
     from_file |-> 0]        \* how many entries of msgs _load_history returned

\* SpanishAITutor(self._config)
NewTutor == NewMessages(TutorPrompt)

\* What st.chat_input may hand to run(): `if prompt:` lets every non-empty
\* string through.
Prompts == {Str(<<"n">>), Str(<<" ">>)}

\* What the backend does with a request of the front end.
UIBackendOutcomes ==
    { Raise("APIError"),
      Ok(Completion(Str(<<"U+00F1">>))),
      Ok(Completion(Str(<<" ">>))),
      Ok(Obj(<< <<Word("choices"), List(<<>>)>> >>)) }

\* A transcript an earlier run of the application left behind.
EarlierTranscript ==
    save_history(<< Msg("user", Str(<<"n">>)), Msg("assistant", Str(<<"U+00F1">>)) >>)

\* A transcript cut in the middle of its last character.
CutTranscript ==
    FileOf(SubSeq(Written(<< Msg("user", Str(<<"U+00F1">>)) >>), 1, 31))

StartFiles ==
    { NoFile, EarlierTranscript, CutTranscript,
      FileOf(<<"not", " ", "json">>),
      [kind |-> "unreadable", bytes |-> <<>>] }

InitUI ==
    /\ history_file \in StartFiles
    /\ lock_holder = NoHolder
    /\ session = [p \in Sessions |-> NewSession]
    /\ turns = 0
    /\ IdleA /\ IdleB /\ IdleStore /\ IdleConfig

\* (mutant) _load_history reads without taking the lock
PcAfterExists_NoLock == "load_read"

\* _load_history, the file exists: the next thing is `with lock:`.
PcAfterExists == "load_acquire"

\* run() with both keys in place: the session state as the run finds it.
WithTutor(s) ==
    IF s.has_tutor THEN s
    ELSE [s EXCEPT !.has_tutor = TRUE, !.tutor = NewTutor]

\* The first run of a session (no interaction yet): "messages" is not in
\* st.session_state, so run() calls _load_history, which returns [] at once
\* when the file does not exist.
PageLoad(p) ==
    /\ session[p].pc = "idle"
    /\ ~session[p].has_messages
    /\ IF history_file.kind = "absent"
       THEN session' = [session EXCEPT ![p] =
                           WithTutor([@ EXCEPT !.has_messages = TRUE,
                                               !.msgs = <<>>])]
       ELSE session' = [session EXCEPT ![p].pc = PcAfterExists]
    /\ UNCHANGED <<history_file, lock_holder, turns, varsA, varsB, varsStore, varsConfig>>

\* `with lock:` is entered, in _load_history or in _save_history.
Acquire(p) ==
    /\ session[p].pc \in {"load_acquire", "save_acquire"}
    /\ lock_holder = NoHolder
    /\ lock_holder' = p
    /\ session' = [session EXCEPT ![p].pc =
                      IF @ = "load_acquire" THEN "load_read" ELSE "save_write"]
    /\ UNCHANGED <<history_file, turns, varsA, varsB, varsStore, varsConfig>>

\* _load_history: read_text takes the content of the file.
LoadRead(p) ==
    /\ session[p].pc = "load_read"
    /\ session' = [session EXCEPT ![p].pc = "load_release",
                                  ![p].io = history_file]
    /\ UNCHANGED <<history_file, lock_holder, turns, varsA, varsB, varsStore, varsConfig>>

\* The lock after the `with lock:` block of p is left.
Released(p) == IF lock_holder = p THEN NoHolder ELSE lock_holder

\* _load_history: the `with` block is left, by its end or by an exception.
LoadRelease(p) ==
    /\ session[p].pc = "load_release"
    /\ lock_holder' = Released(p)
    /\ session' = [session EXCEPT ![p].pc = "load_filter"]
    /\ UNCHANGED <<history_file, turns, varsA, varsB, varsStore, varsConfig>>

\* _load_history: what was read is decoded, parsed and filtered; the list
\* returned becomes st.session_state.messages, and an exception that is not
\* caught ends the run.
LoadFilter(p) ==
    /\ session[p].pc = "load_filter"
    /\ LET s == session[p]
           r == load_history(s.io)
       IN  session' = [session EXCEPT ![p] =
              IF r.exc = ""
              THEN WithTutor([s EXCEPT !.pc = "idle", !.has_messages = TRUE,
                                       !.msgs = r.val, !.io = NoFile,
                                       !.from_file = Len(r.val)])
              ELSE [s EXCEPT !.pc = "idle", !.io = NoFile]]
    /\ UNCHANGED <<history_file, lock_holder, turns, varsA, varsB, varsStore, varsConfig>>

\* The user sends a message: _handle_user_prompt appends the user turn and
\* calls _save_history.
SendMessage(p) ==
    /\ session[p].pc = "idle"
    /\ session[p].has_messages
    /\ turns < MaxTurns
    /\ \E prompt \in Prompts :
          session' = [session EXCEPT ![p] =
              [@ EXCEPT !.pc = "save_acquire", !.after = "backend",
                        !.prompt = prompt,
                        !.msgs = Append(@, Msg("user", prompt)),
                        !.io = save_history(
                                  Append(session[p].msgs, Msg("user", prompt)))]]
    /\ turns' = turns + 1
    /\ UNCHANGED <<history_file, lock_holder, varsA, varsB, varsStore, varsConfig>>

\* (mutant) _save_history adds its list to what the file holds
FileAfterSave_Merging(f, s) ==
    IF f.kind = "file" /\ load_history(f).exc = ""
    THEN save_history(load_history(f).val \o s.msgs)
    ELSE s.io

\* _save_history: the file after write_text, given the file before and the
\* session that saves.
FileAfterSave(f, s) == s.io

\* _save_history: write_text, or the OSError it raises when the file cannot
\* be opened.
SaveWrite(p) ==
    /\ session[p].pc = "save_write"
    /\ LET w == WriteText(history_file, FileAfterSave(history_file, session[p]))
       IN  /\ history_file' = w.file
           /\ session' = IF w.exc # ""
                         THEN [session EXCEPT ![p].pc = "save_release",
                                              ![p].pending = Raise(w.exc)]
                         ELSE [session EXCEPT ![p].pc = "save_release"]
    /\ UNCHANGED <<lock_holder, turns, varsA, varsB, varsStore, varsConfig>>

\* (mutant) the reset keeps the engine of the session
TutorAfterReset_Kept(s) == s.tutor

\* _render_sidebar: st.session_state.tutor = SpanishAITutor(self._config)
TutorAfterReset(s) == NewTutor

\* _save_history: the `with` block is left, with the value or the OSError of
\* write_text; the lock is free from here on.
SaveRelease(p) ==
    /\ session[p].pc = "save_release"
    /\ lock_holder' = Released(p)
    /\ session' = [session EXCEPT ![p] = [@ EXCEPT !.pc = "saved", !.io = NoFile]]
    /\ UNCHANGED <<history_file, turns, varsA, varsB, varsStore, varsConfig>>

\* What follows the return of _save_history, without the lock: an OSError
\* ends the run; after the save of a reset the tutor is replaced and the
\* script reruns (_render_sidebar, lines 67-68); after the save of the user
\* turn the run goes on to the tutor (_handle_user_prompt, lines 49-54);
\* after the save of the assistant turn the run ends.
AfterSave(p) ==
    /\ session[p].pc = "saved"
    /\ LET s == session[p]
       IN  session' = [session EXCEPT ![p] =
              IF s.pending.exc = "OSError"
              THEN [s EXCEPT !.pc = "idle", !.after = "idle", !.prompt = PyNone,
                             !.pending = Raise("none")]
              ELSE IF s.after = "reset"
              THEN [s EXCEPT !.pc = "idle", !.after = "idle",
                             !.tutor = TutorAfterReset(s)]
              ELSE [s EXCEPT !.pc = s.after, !.after = "idle"]]
    /\ UNCHANGED <<history_file, lock_holder, turns, varsA, varsB, varsStore, varsConfig>>

\* (mutant) the reply is appended whenever it is not empty
UIAppendsReply_Truthy(reply) == Truthy(reply)

\* _handle_user_prompt: `if reply.strip():`
UIAppendsReply(reply) == Strip(reply.v) # <<>>

\* _handle_user_prompt, line 54: tutor.create_completion(prompt), up to the
\* request (ollama_core.py, lines 104-115): a prompt that is None is
\* rejected, the user turn is appended to the engine, and the session waits
\* in chat.completions.create.
AskTutor(p) ==
    /\ session[p].pc = "backend"
    /\ LET s == session[p]
       IN  session' = [session EXCEPT ![p] =
              IF InputRejected(s.prompt)
              THEN [s EXCEPT !.pc = "idle", !.prompt = PyNone]
              ELSE [s EXCEPT !.pc = "waiting",
                             !.tutor = WithUserTurn(s.tutor, s.prompt)]]
    /\ UNCHANGED <<history_file, lock_holder, turns, varsA, varsB, varsStore, varsConfig>>

\* create_completion, lines 115-119: the backend answers or fails.  The
\* assistant turn is appended to the engine when the extracted text is not
\* blank, and handle_response gives the reply of line 54; an exception of
\* the backend or of handle_response ends the run.
BackendAnswers(p) ==
    /\ session[p].pc = "waiting"
    /\ \E backend \in UIBackendOutcomes :
          LET s == session[p]
          IN  session' = [session EXCEPT ![p] =
                  IF backend.exc # ""
                  THEN [s EXCEPT !.pc = "idle", !.prompt = PyNone]
                  ELSE LET extracted == extract_assistant_content(backend.val)
                           out == handle_response(backend.val)
                       IN  IF extracted.exc # "" \/ out.exc # ""
                           THEN [s EXCEPT !.pc = "idle", !.prompt = PyNone,
                                          !.tutor = AfterResponse(s.tutor, backend.val)]
                           ELSE [s EXCEPT !.pc = "reply", !.prompt = PyNone,
                                          !.tutor = AfterResponse(s.tutor, backend.val),
                                          !.reply = out.val]]
    /\ UNCHANGED <<history_file, lock_holder, turns, varsA, varsB, varsStore, varsConfig>>

\* _handle_user_prompt, lines 57-59: the assistant turn is appended and
\* saved when the reply is not blank.
AppendReply(p) ==
    /\ session[p].pc = "reply"
    /\ LET s == session[p]
       IN  session' = [session EXCEPT ![p] =
              IF UIAppendsReply(s.reply)
              THEN [s EXCEPT !.pc = "save_acquire", !.after = "idle",
                             !.reply = PyNone,
                             !.msgs = Append(s.msgs, Msg("assistant", s.reply)),
                             !.io = save_history(
                                       Append(s.msgs, Msg("assistant", s.reply)))]
              ELSE [s EXCEPT !.pc = "idle", !.reply = PyNone]]
    /\ UNCHANGED <<history_file, lock_holder, turns, varsA, varsB, varsStore, varsConfig>>

\* Streamlit ends the script run at an st.* call of _handle_user_prompt
\* because the user has interacted again: before the tutor is asked
\* (st.chat_message, st.markdown, st.spinner, lines 49-53) or when the reply
\* is shown (st.markdown(reply), line 55).
StopRun(p) ==
    /\ session[p].pc \in {"backend", "reply"}
    /\ session' = [session EXCEPT ![p] =
          [@ EXCEPT !.pc = "idle", !.prompt = PyNone, !.reply = PyNone]]
    /\ UNCHANGED <<history_file, lock_holder, turns, varsA, varsB, varsStore, varsConfig>>

\* The user presses "Reiniciar conversación": _render_sidebar empties the
\* list and calls _save_history.
ResetConversation(p) ==
    /\ session[p].pc = "idle"
    /\ session[p].has_messages
    /\ turns < MaxTurns
    /\ session' = [session EXCEPT ![p] =
          [@ EXCEPT !.pc = "save_acquire", !.after = "reset", !.msgs = <<>>,
                    !.from_file = 0, !.io = save_history(<<>>)]]
    /\ turns' = turns + 1
    /\ UNCHANGED <<history_file, lock_holder, varsA, varsB, varsStore, varsConfig>>

NextUI ==
    \E p \in Sessions :
        \/ PageLoad(p)
        \/ Acquire(p)
        \/ LoadRead(p)
        \/ LoadRelease(p)
        \/ LoadFilter(p)
        \/ SendMessage(p)
        \/ SaveWrite(p)
        \/ SaveRelease(p)
        \/ AfterSave(p)
        \/ AskTutor(p)
        \/ BackendAnswers(p)
        \/ AppendReply(p)
        \/ StopRun(p)
        \/ ResetConversation(p)

SpecUI == InitUI /\ [][NextUI]_vars

\* The steps made while holding the lock: the read or write, and leaving
\* the `with` block.
LockedStep(p) ==
    LoadRead(p) \/ LoadRelease(p) \/ SaveWrite(p) \/ SaveRelease(p)

\* The block under the lock runs to its end, and FileLock.acquire, which
\* blocks without a timeout and tries again at every poll, gets a lock that
\* stays free.  The waiters are in no queue: nothing makes a poll win
\* against sessions that take the lock again and again.  Whether the user
\* acts, and whether the backend answers, is left open.
FairUI ==
    \A p \in Sessions : WF_vars(LockedStep(p)) /\ WF_vars(Acquire(p))

SpecUIFair == InitUI /\ [][NextUI]_vars /\ FairUI

(* Front end: properties *)

\* Session p is inside the `with lock:` block of a read or of a write.
Inside(p) ==
    session[p].pc \in {"load_read", "load_release", "save_write", "save_release"}

\* Session p is waiting to enter one.
Waiting(p) == session[p].pc \in {"load_acquire", "save_acquire"}

\* What the transcript file holds, parsed.
Stored ==
    LET text == Decode(history_file.bytes)
    IN  IF history_file.kind # "file" \/ text.exc # ""
        THEN Raise("unreadable")
        ELSE Loads(text.val)

\* C8 (as stated): no two sessions are inside a read or a write of the
\* transcript at the same time; a session holds the lock exactly while it is
\* inside one, so the lock is free again after every operation whatever its
\* outcome; and a session waiting for the lock eventually holds it.
C8_LockDiscipline ==
    /\ [](\A p, q \in Sessions : (p # q) => ~(Inside(p) /\ Inside(q)))
    /\ [](\A p \in Sessions : Inside(p) <=> (lock_holder = p))
    /\ \A p \in Sessions : Waiting(p) ~> (lock_holder = p)

\* C8 (amended): no two sessions are inside a read or a write of the
\* transcript at the same time; a session holds the lock exactly while it is
\* inside one; every session that holds the lock releases it, whatever the
\* outcome of its operation; and a free lock that a session waits for is
\* taken, by that session or by another one.
C8_LockReleasedAndTaken ==
    /\ [](\A p, q \in Sessions : (p # q) => ~(Inside(p) /\ Inside(q)))
    /\ [](\A p \in Sessions : Inside(p) <=> (lock_holder = p))
    /\ \A p \in Sessions : (lock_holder = p) ~> (lock_holder = NoHolder)
    /\ \A p \in Sessions :
          (Waiting(p) /\ lock_holder = NoHolder) ~> (lock_holder # NoHolder)

\* C8 witness: one session is leaving the read of a file that cannot be
\* decoded while the other waits for the lock.
C8_Witness ==
    \E p, q \in Sessions :
        /\ session[p].pc = "load_release"
        /\ session[p].io = CutTranscript
        /\ lock_holder = p
        /\ Waiting(q)

\* C9: every read and every write is made holding the lock, and a save
\* leaves in the file exactly the in-memory list of the session that saved:
\* nothing of what the file held before is kept.  (The lost update this
\* permits is the witness.)
C9_SaveRewritesWholeFile ==
    \A p \in Sessions :
        /\ Inside(p) => lock_holder = p
        /\ (session[p].pc = "save_release" /\ session[p].pending.exc # "OSError")
              => Stored = Ok(List(session[p].msgs))

\* C9 witness, the lost update: both sessions are at rest, session p sent a
\* message and saved it, and the file now holds the list of the other
\* session, without that message.
C9_Witness ==
    \E p, q \in Sessions :
        /\ p # q
        /\ session[p].pc = "idle" /\ session[q].pc = "idle"
        /\ lock_holder = NoHolder
        /\ session[q].msgs # <<>>
        /\ Stored = Ok(List(session[q].msgs))
        /\ \E i \in 1..Len(session[p].msgs) :
              /\ session[p].msgs[i] = Msg("user", Str(<<"n">>))
              /\ \A j \in 1..Len(session[q].msgs) :
                    session[q].msgs[j] # session[p].msgs[i]

\* C10: every entry stored in the transcript file has a role of the
\* allow-list and a content that is non-empty after trimming.
C10_StoredEntriesValid ==
    (Stored.exc = "" /\ Stored.val.t = "list") => AllValid(Stored.val.v)

\* The turns the front end appended to the visible list of session record s
\* since the session started or was last reset: what follows the entries
\* that came from the transcript file.
VisibleTurns(s) == SubSeq(s.msgs, s.from_file + 1, Len(s.msgs))

\* Session p is between two script runs, its list and its engine in place.
AtRest(p) ==
    session[p].pc = "idle" /\ session[p].has_messages /\ session[p].has_tutor

EngineTurns(s) == SubSeq(s.tutor, 2, Len(s.tutor))

\* V, turns of the visible list, and E, turns of the engine, come from the
\* same runs of _handle_user_prompt.  Each run put its user turn in V.  A run
\* whose assistant turn is in V put both turns in E.  A run without an
\* assistant turn in V put nothing in E (it ended before the tutor was
\* asked), or its user turn (the backend failed or the reply was blank), or
\* its user turn and an assistant turn (it ended before the reply was
\* appended to V).
RECURSIVE SameRuns(_, _)
SameRuns(V, E) ==
    IF V = <<>> THEN E = <<>>
    ELSE IF Role(V[1]) # Str(Word("user")) THEN FALSE
    ELSE IF Len(V) >= 2 /\ Role(V[2]) = Str(Word("assistant"))
    THEN /\ Len(E) >= 2
         /\ E[1] = V[1]
         /\ E[2] = V[2]
         /\ SameRuns(Tail(Tail(V)), Tail(Tail(E)))
    ELSE \/ SameRuns(Tail(V), E)
         \/ /\ Len(E) >= 1
            /\ E[1] = V[1]
            /\ SameRuns(Tail(V), Tail(E))
         \/ /\ Len(E) >= 2
            /\ E[1] = V[1]
            /\ Role(E[2]) = Str(Word("assistant"))
            /\ SameRuns(Tail(V), Tail(Tail(E)))

ResetSaveReleased(p) ==
    /\ session[p].pc = "save_release"
    /\ session[p].after = "reset"
    /\ session[p].pending.exc # "OSError"
    /\ session'[p].pc = "saved"

\* The step completes the reset of session p: its save was written, the
\* tutor is replaced and the script reruns.
ResetCompletes(p) ==
    /\ session[p].pc = "saved"
    /\ session[p].after = "reset"
    /\ session[p].pending.exc # "OSError"
    /\ session'[p].pc = "idle"

\* The step starts a save of a send-message turn of session p (of the user
\* turn or of the assistant turn).
SendSaveStarts(p) ==
    /\ session[p].pc \in {"idle", "reply"}
    /\ session'[p].pc = "save_acquire"
    /\ session'[p].after # "reset"

\* No step but the reset makes the visible list of session p shorter, and
\* every save of a send-message turn writes the visible list, which extends
\* the one before.
OnlyResetShortens(p) ==
    /\ (session[p].has_messages /\
            ~IsPrefix(session[p].msgs, session'[p].msgs)) =>
          /\ session[p].pc = "idle"
          /\ session'[p].after = "reset"
          /\ session'[p].msgs = <<>>
    /\ SendSaveStarts(p) =>
          /\ IsPrefix(session[p].msgs, session'[p].msgs)
          /\ session'[p].io = save_history(session'[p].msgs)

\* C20 (as stated): when a reset completes, the visible list of the session
\* is empty, the transcript file holds the empty list and the engine of the
\* session is a fresh one holding only the system prompt; no step but the
\* reset makes the visible list of a session shorter, and every save of a
\* send-message turn writes the visible list, which extends the one before.
C20_ResetAndGrowth ==
    [][ \A p \in Sessions :
          /\ ResetCompletes(p) =>
                /\ session'[p].msgs = <<>>
                /\ history_file' = save_history(<<>>)
                /\ session'[p].tutor = NewMessages(TutorPrompt)
          /\ OnlyResetShortens(p) ]_vars

\* C20 (amended): the transcript file holds the empty list when the save of
\* a reset leaves the lock (a save of another session may follow before the
\* reset completes); when the reset completes, the visible list of the
\* session is empty and its engine is a fresh one holding only the system
\* prompt; no step but the reset makes the visible list of a session
\* shorter, and every save of a send-message turn writes the visible list,
\* which extends the one before.
C20_ResetSaveAndGrowth ==
    [][ \A p \in Sessions :
          /\ ResetSaveReleased(p) =>
                /\ session'[p].msgs = <<>>
                /\ history_file' = save_history(<<>>)
          /\ ResetCompletes(p) =>
                /\ session'[p].msgs = <<>>
                /\ session'[p].tutor = NewMessages(TutorPrompt)
          /\ OnlyResetShortens(p) ]_vars

\* C20 witness: after a send-message turn that reached the engine, the save
\* of a reset has been written and has left the lock: the file holds the
\* empty list, the visible list is empty, and the engine, which still holds
\* the turn, is about to be replaced.
C20_Witness ==
    /\ Stored = Ok(List(<<>>))
    /\ \E p \in Sessions :
          /\ session[p].pc = "saved"
          /\ session[p].after = "reset"
          /\ session[p].pending.exc # "OSError"
          /\ session[p].msgs = <<>>
          /\ Len(session[p].tutor) > 1
          /\ \E q \in Sessions : q # p /\ session[q].msgs # <<>>

-----------------------------------------------------------------------------
(* Configuration: OllamaConfig (ollama_core.py), OpenAIConfig (openai_core.py) *)

API_KEY_ENV  == "OLLAMA_API_KEY"
BASE_URL_ENV == "OLLAMA_BASE_URL"
MODEL_ENV    == "OLLAMA_MODEL"
DEFAULT_BASE_URL == Word("http://localhost:11434/v1")
DEFAULT_API_KEY  == Word("ollama")

api_key_env == "OPENAI_API_KEY"
model_env   == "OPENAI_MODEL"

EnvNames == {API_KEY_ENV, BASE_URL_ENV, MODEL_ENV, api_key_env, model_env}

\* os.getenv(name, ""): the text of the variable, "" when it is not set.
getenv(env, name) == IF env[name].t = "None" THEN <<>> ELSE env[name].v

\* (mutant) the value is used as it stands in the environment
getenv_stripped_NoStrip(env, name) == getenv(env, name)

\* os.getenv(name, "").strip()
getenv_stripped(env, name) == Strip(getenv(env, name))

\* (mutant) the default is the fallback of getenv: it replaces an unset
\* variable only
EnvOrDefault_UnsetOnly(env, name, default) ==
    IF env[name].t = "None" THEN Strip(default) ELSE Strip(env[name].v)

\* os.getenv(name, "").strip() or default
EnvOrDefault(env, name, default) ==
    LET value == getenv_stripped(env, name)
    IN  IF value # <<>> THEN value ELSE default

\* raise ValueError(f"Missing or empty environment variable: {name}")
MissingVariable(name) ==
    [exc |-> "ValueError",
     msg |-> <<"Missing or empty environment variable: ", name>>,
     val |-> PyNone]

Constructed(fields) == [exc |-> "", msg |-> <<>>, val |-> fields]

\* OllamaConfig.__init__
OllamaConfig(env) ==
    LET model    == getenv_stripped(env, MODEL_ENV)
        base_url == EnvOrDefault(env, BASE_URL_ENV, DEFAULT_BASE_URL)
        api_key  == EnvOrDefault(env, API_KEY_ENV, DEFAULT_API_KEY)
    IN  IF model = <<>> THEN MissingVariable(MODEL_ENV)
        ELSE IF base_url = <<>> THEN MissingVariable(BASE_URL_ENV)
        ELSE Constructed([api_key |-> Str(api_key), base_url |-> Str(base_url),
                          model_name |-> Str(model)])

\* OpenAIConfig.__init__
OpenAIConfig(env) ==
    LET api_key == getenv_stripped(env, api_key_env)
        model   == getenv_stripped(env, model_env)
    IN  IF api_key = <<>> THEN MissingVariable(api_key_env)
        ELSE IF model = <<>> THEN MissingVariable(model_env)
        ELSE Constructed([api_key |-> Str(api_key), model_name |-> Str(model)])

(* Environments *)

\* A real value of each variable.
SampleValue(name) ==
    CASE name = API_KEY_ENV  -> "key-a"
      [] name = BASE_URL_ENV -> "http://tutor-host:11434/v1"
      [] name = MODEL_ENV    -> "demo-model"
      [] name = api_key_env  -> "sk-b"
      [] name = model_env    -> "gpt-demo"

\* The states of one variable: unset, empty, whitespace-only, a real value,
\* a real value with whitespace around it.
EnvValue(name, k) ==
    CASE k = 1 -> PyNone
      [] k = 2 -> Str(<<>>)
      [] k = 3 -> Str(<<" ", "\n">>)
      [] k = 4 -> Str(<<SampleValue(name)>>)
      [] k = 5 -> Str(<<" ", SampleValue(name), "\n">>)

Environments ==
    { [name \in EnvNames |-> EnvValue(name, choice[name])] :
        choice \in [EnvNames -> 1..5] }

InitConfig ==
    /\ environ \in Environments
    /\ ollama_config = NotConstructed
    /\ openai_config = NotConstructed
    /\ IdleA /\ IdleB /\ IdleStore /\ IdleUI

\* OllamaConfig()
NewOllamaConfig ==
    /\ ollama_config = NotConstructed
    /\ ollama_config' = OllamaConfig(environ)
    /\ UNCHANGED <<environ, openai_config, varsA, varsB, varsStore, varsUI>>

\* OpenAIConfig()
NewOpenAIConfig ==
    /\ openai_config = NotConstructed
    /\ openai_config' = OpenAIConfig(environ)
    /\ UNCHANGED <<environ, ollama_config, varsA, varsB, varsStore, varsUI>>

NextConfig == NewOllamaConfig \/ NewOpenAIConfig

SpecConfig == InitConfig /\ [][NextConfig]_vars

(* Configuration: properties *)

\* A variable that is missing or empty after trimming: unset, or nothing but
\* whitespace.
Blank(v) == v.t = "None" \/ \A i \in 1..Len(v.v) : v.v[i] \in Whitespace

\* The variable an error message names.
Names(outcome, name) == outcome.exc = "ValueError" /\ outcome.msg[2] = name

\* The value a field takes from a variable, with the fallback for a blank one.
TrimmedOr(v, fallback) == IF Blank(v) THEN Str(fallback) ELSE Str(Strip(v.v))

\* C11: OllamaConfig() fails if and only if OLLAMA_MODEL is empty after
\* trimming, and the error names OLLAMA_MODEL; otherwise the endpoint and the
\* credential are their trimmed environment values, or the documented
\* defaults (http://localhost:11434/v1, "ollama") when missing or empty.
C11_OllamaConfigDefaults ==
    (ollama_config # NotConstructed) =>
        /\ (ollama_config.exc # "") <=> Blank(environ[MODEL_ENV])
        /\ (ollama_config.exc # "") => Names(ollama_config, "OLLAMA_MODEL")
        /\ (ollama_config.exc = "") =>
              /\ ollama_config.val.base_url =
                    TrimmedOr(environ[BASE_URL_ENV], <<"http://localhost:11434/v1">>)
              /\ ollama_config.val.api_key =
                    TrimmedOr(environ[API_KEY_ENV], <<"ollama">>)
              /\ ollama_config.val.model_name = Str(Strip(environ[MODEL_ENV].v))

\* C11 witness: a configuration built from a whitespace-only endpoint (the
\* default applies) and a credential with whitespace around it (trimmed).
C11_Witness ==
    /\ ollama_config.exc = ""
    /\ environ[BASE_URL_ENV] = Str(<<" ", "\n">>)
    /\ environ[API_KEY_ENV] = Str(<<" ", "key-a", "\n">>)
    /\ ollama_config.val.base_url = Str(<<"http://localhost:11434/v1">>)
    /\ ollama_config.val.api_key = Str(<<"key-a">>)

\* C12: OpenAIConfig() fails whenever OPENAI_API_KEY is missing or empty after
\* trimming and whenever OPENAI_MODEL is, each independently; the error names a
\* variable that is actually missing; a configuration that is built holds
\* both trimmed values, non-empty.
C12_OpenAIConfigRequired ==
    (openai_config # NotConstructed) =>
        /\ Blank(environ[api_key_env]) => openai_config.exc = "ValueError"
        /\ Blank(environ[model_env]) => openai_config.exc = "ValueError"
        /\ (openai_config.exc # "") =>
              \E name \in {"OPENAI_API_KEY", "OPENAI_MODEL"} :
                  Names(openai_config, name) /\ Blank(environ[name])
        /\ (openai_config.exc = "") =>
              /\ openai_config.val.api_key = Str(Strip(environ[api_key_env].v))
              /\ openai_config.val.model_name = Str(Strip(environ[model_env].v))
              /\ openai_config.val.api_key.v # <<>>
              /\ openai_config.val.model_name.v # <<>>

\* C12 witness: the credential is present and the model is whitespace-only;
\* the error names OPENAI_MODEL.
C12_Witness ==
    /\ environ[api_key_env] = Str(<<" ", "sk-b", "\n">>)
    /\ environ[model_env] = Str(<<" ", "\n">>)
    /\ Names(openai_config, "OPENAI_MODEL")

=============================================================================
